---- MODULE Spec2Model ----
(***************************************************************************)
(* The streaming chat page (src/src/app/page.tsx): the Home component's    *)
(* React state, the sendMessage callback, the four WebSocket handlers it   *)
(* installs on every socket it opens, and the unmount cleanup effect.      *)
(*                                                                         *)
(* Strings are sequences of one-character strings, so that concatenation,  *)
(* trimming and the emptiness test of `content || marker` are computed.    *)
(* The handlers are the code's; which events a socket may raise is the     *)
(* transport's side: connected is the first event or never comes,          *)
(* fragments come only after connected, at most one error, and close is    *)
(* the last event of a socket.  Events of an older socket may interleave   *)
(* with submits and with the events of a newer socket.                     *)
(***************************************************************************)
EXTENDS Naturals, Sequences, FiniteSets

\* ---------------------------------------------------------------- bounds
\* sockets (sessions) ever opened
MaxSessions == 2
\* fragments delivered in all, over every socket
MaxFrags == 2

\* ------------------------------------------------------------- constants
\* the fragments a server may stream: the empty text frame and two letters
Fragments == { <<>>, <<"a">>, <<"b">> }
\* what the user may have typed: nothing, blanks only, a padded prompt
Inputs == { <<>>, <<" ">>, <<" ", "p", " ">> }
\* the fixed advisory string of ws.onerror
ErrorMarker == <<"!">>

VARIABLES
    messages,      \* useState<Message[]>: sequence of [id, role, content]
    input,         \* useState(""): the textarea's text
    isConnecting,  \* useState(false)
    isStreaming,   \* useState(false)
    wsRef,         \* useRef<WebSocket | null>: 0 is null, i is sockets[i]
    mounted,       \* FALSE once the unmount cleanup has run
    sockets        \* every WebSocket sendMessage created, with the values its
                   \* handlers captured and what the transport did so far

vars == <<messages, input, isConnecting, isStreaming, wsRef, mounted, sockets>>

\* ------------------------------------------------------------ pure parts
RECURSIVE TrimStart(_)
TrimStart(s) ==
    IF s # <<>> /\ Head(s) = " " THEN TrimStart(Tail(s)) ELSE s

RECURSIVE TrimEnd(_)
TrimEnd(s) ==
    IF s # <<>> /\ s[Len(s)] = " " THEN TrimEnd(SubSeq(s, 1, Len(s) - 1)) ELSE s

\* String.prototype.trim
Trim(s) == TrimEnd(TrimStart(s))

\* ids of the two messages of the n-th accepted submit (crypto.randomUUID():
\* fresh and distinct)
\* (variant: the assistant message takes the user message's id)
UserId(n) == 2 * n - 1
AssistantIdReused(n) == UserId(n)
AssistantId(n) == 2 * n

\* msg.content + data  (variant: data + msg.content)
ConcatSwapped(content, data) == data \o content
Concat(content, data) == content \o data

\* msg.content || marker  (variants: the marker appended; `??` for `||`)
OrMarkerAppended(content) == content \o ErrorMarker
OrMarkerNullish(content) == content
OrMarker(content) == IF content = <<>> THEN ErrorMarker ELSE content

\* prev.map(msg => msg.id === id ? {...msg, content: f(msg.content)} : msg)
\* (variant: the test is msg.role === "assistant")
MapFragmentAll(prev, id, data) ==
    [k \in 1..Len(prev) |->
        IF prev[k].role = "assistant"
        THEN [prev[k] EXCEPT !.content = Concat(@, data)]
        ELSE prev[k]]
MapFragment(prev, id, data) ==
    [k \in 1..Len(prev) |->
        IF prev[k].id = id
        THEN [prev[k] EXCEPT !.content = Concat(@, data)]
        ELSE prev[k]]

MapError(prev, id) ==
    [k \in 1..Len(prev) |->
        IF prev[k].id = id
        THEN [prev[k] EXCEPT !.content = OrMarker(@)]
        ELSE prev[k]]

\* setMessages((prev) => [...prev, msg])  (variant: [msg, ...prev])
AddMessageFront(prev, msg) == <<msg>> \o prev
AddMessage(prev, msg) == Append(prev, msg)

\* a state setter of an unmounted component changes nothing
SetState(old, new) == IF mounted THEN new ELSE old

\* -------------------------------------------------------------- the page
Init ==
    /\ messages = <<>>
    /\ input = <<>>
    /\ isConnecting = FALSE
    /\ isStreaming = FALSE
    /\ wsRef = 0
    /\ mounted = TRUE
    /\ sockets = <<>>

\* onChange of the textarea, which is disabled while isConnecting
SetInput(v) ==
    /\ mounted
    /\ ~isConnecting
    /\ input # v
    /\ input' = v
    /\ UNCHANGED <<messages, isConnecting, isStreaming, wsRef, mounted, sockets>>

\* the guard of sendMessage
Rejects(prompt) == prompt = <<>> \/ isConnecting \/ isStreaming

NewSocket(n, prompt) ==
    [ assistantMessageId |-> AssistantId(n),
      prompt     |-> prompt,
      opened     |-> FALSE,   \* the connected event was raised
      errored    |-> FALSE,   \* the error event was raised
      closed     |-> FALSE,   \* the close event was raised
      closeCalls |-> 0,       \* calls of ws.close()
      sent       |-> <<>>,    \* payloads given to ws.send()
      frags      |-> <<>>,    \* fragments raised, in order
      late       |-> 0,       \* of these, raised after error or ws.close()
      ends       |-> 0 ]      \* runs of onerror/onclose (flag reset, ref cleared)

\* sendMessage, called by handleSubmit and handleKeyDown; cap bounds the
\* sockets ever opened
SendMessage(cap) ==
    /\ mounted
    /\ LET prompt == Trim(input)
           n == Len(sockets) + 1
       IN  IF Rejects(prompt)
           THEN UNCHANGED vars
           ELSE /\ n <= cap
                /\ messages' = AddMessage(
                      AddMessage(messages,
                         [id |-> UserId(n), role |-> "user", content |-> prompt]),
                      [id |-> AssistantId(n), role |-> "assistant", content |-> <<>>])
                /\ input' = <<>>
                /\ isConnecting' = TRUE
                /\ sockets' = Append(sockets, NewSocket(n, prompt))
                /\ wsRef' = n
                /\ UNCHANGED <<isStreaming, mounted>>

\* two calls of sendMessage from the closure of one render: the second call
\* reads the same input, isConnecting and isStreaming as the first (the
\* dependencies of useCallback), and its updates queue behind the first's
SendMessageTwice(cap) ==
    /\ mounted
    /\ LET prompt == Trim(input)
           n == Len(sockets) + 1
       IN  IF Rejects(prompt)
           THEN UNCHANGED vars
           ELSE /\ n + 1 <= cap
                /\ messages' = AddMessage(AddMessage(
                      AddMessage(AddMessage(messages,
                         [id |-> UserId(n), role |-> "user", content |-> prompt]),
                         [id |-> AssistantId(n), role |-> "assistant", content |-> <<>>]),
                      [id |-> UserId(n + 1), role |-> "user", content |-> prompt]),
                      [id |-> AssistantId(n + 1), role |-> "assistant", content |-> <<>>])
                /\ input' = <<>>
                /\ isConnecting' = TRUE
                /\ sockets' = Append(Append(sockets, NewSocket(n, prompt)),
                                     NewSocket(n + 1, prompt))
                /\ wsRef' = n + 1
                /\ UNCHANGED <<isStreaming, mounted>>

\* the session of sockets[i] has left connecting/streaming
Ended(s) == s.errored \/ s.closed \/ s.closeCalls > 0

\* JSON.stringify({ prompt }): an object with the one field prompt
Payload(prompt) == [prompt |-> prompt]

\* ws.onopen  (variants: setIsConnecting(false) is missing; the prompt is
\* sent twice)
OnOpenKeepsConnecting(i) ==
    /\ ~sockets[i].opened /\ ~Ended(sockets[i])
    /\ isStreaming' = SetState(isStreaming, TRUE)
    /\ sockets' = [sockets EXCEPT ![i].opened = TRUE,
                                  ![i].sent = Append(@, Payload(sockets[i].prompt))]
    /\ UNCHANGED <<messages, input, isConnecting, wsRef, mounted>>
OnOpenSendsTwice(i) ==
    /\ ~sockets[i].opened /\ ~Ended(sockets[i])
    /\ isConnecting' = SetState(isConnecting, FALSE)
    /\ isStreaming' = SetState(isStreaming, TRUE)
    /\ sockets' = [sockets EXCEPT ![i].opened = TRUE,
                                  ![i].sent = @ \o << Payload(sockets[i].prompt),
                                                      Payload(sockets[i].prompt) >>]
    /\ UNCHANGED <<messages, input, wsRef, mounted>>
OnOpen(i) ==
    /\ ~sockets[i].opened /\ ~Ended(sockets[i])
    /\ isConnecting' = SetState(isConnecting, FALSE)
    /\ isStreaming' = SetState(isStreaming, TRUE)
    /\ sockets' = [sockets EXCEPT ![i].opened = TRUE,
                                  ![i].sent = Append(@, Payload(sockets[i].prompt))]
    /\ UNCHANGED <<messages, input, wsRef, mounted>>

RECURSIVE Delivered(_)
Delivered(n) == IF n = 0 THEN 0 ELSE Len(sockets[n].frags) + Delivered(n - 1)

\* ws.onmessage
OnMessage(i, data) ==
    /\ sockets[i].opened /\ ~sockets[i].closed
    /\ Delivered(Len(sockets)) < MaxFrags
    /\ messages' = SetState(messages,
                            MapFragment(messages, sockets[i].assistantMessageId, data))
    /\ sockets' = [sockets EXCEPT ![i].frags = Append(@, data),
                                  ![i].late = IF Ended(sockets[i]) THEN @ + 1 ELSE @]
    /\ UNCHANGED <<input, isConnecting, isStreaming, wsRef, mounted>>

\* ws.onerror  (variant: it also calls ws.close())
OnErrorClosesSocket(i) ==
    /\ ~sockets[i].errored /\ ~sockets[i].closed
    /\ isConnecting' = SetState(isConnecting, FALSE)
    /\ isStreaming' = SetState(isStreaming, FALSE)
    /\ messages' = SetState(messages, MapError(messages, sockets[i].assistantMessageId))
    /\ wsRef' = 0
    /\ sockets' = [sockets EXCEPT ![i].errored = TRUE, ![i].ends = @ + 1,
                                  ![i].closeCalls = @ + 1]
    /\ UNCHANGED <<input, mounted>>
OnError(i) ==
    /\ ~sockets[i].errored /\ ~sockets[i].closed
    /\ isConnecting' = SetState(isConnecting, FALSE)
    /\ isStreaming' = SetState(isStreaming, FALSE)
    /\ messages' = SetState(messages, MapError(messages, sockets[i].assistantMessageId))
    /\ wsRef' = 0
    /\ sockets' = [sockets EXCEPT ![i].errored = TRUE, ![i].ends = @ + 1]
    /\ UNCHANGED <<input, mounted>>

\* ws.onclose  (variants: it writes the marker as onerror does;
\* setIsStreaming(false) is missing)
OnCloseWritesMarker(i) ==
    /\ ~sockets[i].closed
    /\ isConnecting' = SetState(isConnecting, FALSE)
    /\ isStreaming' = SetState(isStreaming, FALSE)
    /\ messages' = SetState(messages, MapError(messages, sockets[i].assistantMessageId))
    /\ wsRef' = 0
    /\ sockets' = [sockets EXCEPT ![i].closed = TRUE, ![i].ends = @ + 1]
    /\ UNCHANGED <<input, mounted>>
OnCloseKeepsStreaming(i) ==
    /\ ~sockets[i].closed
    /\ isConnecting' = SetState(isConnecting, FALSE)
    /\ wsRef' = 0
    /\ sockets' = [sockets EXCEPT ![i].closed = TRUE, ![i].ends = @ + 1]
    /\ UNCHANGED <<messages, input, isStreaming, mounted>>
OnClose(i) ==
    /\ ~sockets[i].closed
    /\ isConnecting' = SetState(isConnecting, FALSE)
    /\ isStreaming' = SetState(isStreaming, FALSE)
    /\ wsRef' = 0
    /\ sockets' = [sockets EXCEPT ![i].closed = TRUE, ![i].ends = @ + 1]
    /\ UNCHANGED <<messages, input, mounted>>

\* the cleanup of the unmount effect
Unmount ==
    /\ mounted
    /\ mounted' = FALSE
    /\ IF wsRef # 0
       THEN /\ sockets' = [sockets EXCEPT ![wsRef].closeCalls = @ + 1]
            /\ wsRef' = 0
       ELSE UNCHANGED <<sockets, wsRef>>
    /\ UNCHANGED <<messages, input, isConnecting, isStreaming>>

Next(cap) ==
    \/ \E v \in Inputs : SetInput(v)
    \/ SendMessage(cap)
    \/ \E i \in 1..Len(sockets) : OnOpen(i)
    \/ \E i \in 1..Len(sockets) : \E data \in Fragments : OnMessage(i, data)
    \/ \E i \in 1..Len(sockets) : OnError(i)
    \/ \E i \in 1..Len(sockets) : OnClose(i)
    \/ Unmount

Spec == Init /\ [][Next(MaxSessions)]_vars

\* the same page with room for one more session, for the interleavings that
\* need a third submit
SpecWide == Init /\ [][Next(MaxSessions + 1)]_vars

\* the page when a second call of sendMessage can come before the re-render
NextSameRender == Next(MaxSessions) \/ SendMessageTwice(MaxSessions)

SpecSameRender == Init /\ [][NextSameRender]_vars

\* ------------------------------------------------- vocabulary of the claims
\* the content of the message with this id in a message list
ContentIn(msgs, id) ==
    LET k == CHOOSE k \in 1..Len(msgs) : msgs[k].id = id IN msgs[k].content

\* f1 ++ f2 ++ ... ++ fN
RECURSIVE Flatten(_)
Flatten(fs) == IF fs = <<>> THEN <<>> ELSE Head(fs) \o Flatten(Tail(fs))

\* the session states of a socket, read off the events it has raised
Connecting(s) == ~s.opened /\ ~Ended(s)
Streaming(s) == s.opened /\ ~Ended(s)
InFlight(s) == ~Ended(s)

\* this step is the run of a handler of sockets[i]
StepOf(i) == i <= Len(sockets) /\ sockets'[i] # sockets[i]

\* every message but the one with this id is the same before and after
OthersUnchanged(id) ==
    /\ Len(messages') = Len(messages)
    /\ \A k \in 1..Len(messages) : messages[k].id # id => messages'[k] = messages[k]

Sessions == 1..Len(sockets)

\* ------------------------------------------------------------------- C1
\* C1: a session that was closed normally (no error event, no teardown) shows
\* in its assistant message exactly the fragments its transport delivered,
\* concatenated in delivery order; with no fragment the content is empty.
C1_ConcatInDeliveryOrder ==
    mounted =>
        \A i \in Sessions :
            (sockets[i].closed /\ ~sockets[i].errored) =>
                ContentIn(messages, sockets[i].assistantMessageId)
                    = Flatten(sockets[i].frags)

C1_Witness ==
    /\ mounted
    /\ \E i \in Sessions :
          /\ sockets[i].closed /\ ~sockets[i].errored
          /\ sockets[i].frags = << <<"a">>, <<"b">> >>
          /\ ContentIn(messages, sockets[i].assistantMessageId) = <<"a", "b">>

\* ------------------------------------------------------------------- C2
\* C2: while some session is connecting or streaming no step lengthens the
\* message list or opens a transport, and never are two sessions in flight.
C2_SubmitWhileInFlightIsNoOp ==
    /\ [](Cardinality({i \in Sessions : InFlight(sockets[i])}) <= 1)
    /\ [][(\E i \in Sessions : InFlight(sockets[i])) =>
              (Len(messages') = Len(messages) /\ Len(sockets') = Len(sockets))]_vars

\* ------------------------------------------------------------------- C3
\* C3 as claimed: after the error event of a session that had been delivered
\* at least one fragment (whatever its text), the content is the
\* concatenation of the fragments and holds no marker.
C3_AnyFragmentKeepsContent ==
    mounted =>
        \A i \in Sessions :
            (sockets[i].errored /\ sockets[i].late = 0 /\ Len(sockets[i].frags) >= 1) =>
                ContentIn(messages, sockets[i].assistantMessageId)
                    = Flatten(sockets[i].frags)

\* C3 as amended: after the error event of a session whose delivered
\* fragments concatenate to a non-empty text, the content is that
\* concatenation and holds no marker; when they concatenate to the empty
\* text the marker is the content.
C3_NonEmptyTextKeepsContent ==
    mounted =>
        \A i \in Sessions :
            (sockets[i].errored /\ sockets[i].late = 0) =>
                ContentIn(messages, sockets[i].assistantMessageId)
                    = IF Flatten(sockets[i].frags) # <<>>
                      THEN Flatten(sockets[i].frags)
                      ELSE ErrorMarker

C3_Witness ==
    /\ mounted
    /\ \E i \in Sessions :
          /\ sockets[i].errored /\ sockets[i].late = 0
          /\ sockets[i].frags = << <<>>, <<"a">> >>
          /\ ContentIn(messages, sockets[i].assistantMessageId) = <<"a">>

\* ------------------------------------------------------------------- C4
\* C4: the error event of a session that never connected writes exactly the
\* marker into that session's assistant message, resets both flags, clears
\* the reference and changes no other message; the content stays the marker
\* and the user message stays the prompt through every later event.
C4_ConnectFailureWritesMarker ==
    /\ [](mounted =>
            \A i \in Sessions :
                (sockets[i].errored /\ ~sockets[i].opened) =>
                    /\ ContentIn(messages, sockets[i].assistantMessageId) = ErrorMarker
                    /\ ContentIn(messages, UserId(i)) = sockets[i].prompt)
    /\ [][\A i \in Sessions :
            (mounted /\ ~sockets[i].opened /\ ~sockets[i].errored /\ sockets'[i].errored) =>
                /\ ContentIn(messages', sockets[i].assistantMessageId) = ErrorMarker
                /\ OthersUnchanged(sockets[i].assistantMessageId)
                /\ ~isConnecting' /\ ~isStreaming' /\ wsRef' = 0]_vars

C4_Witness ==
    /\ mounted
    /\ \E i \in Sessions :
          /\ sockets[i].errored /\ ~sockets[i].opened /\ sockets[i].closed
          /\ ContentIn(messages, sockets[i].assistantMessageId) = ErrorMarker

\* ------------------------------------------------------------------- C5
\* C5: an event of a transport whose session has already ended (error or
\* close raised, or closed by the teardown) changes no message.
C5_NoMutationAfterEnd ==
    [][\A i \in Sessions : (Ended(sockets[i]) /\ StepOf(i)) => messages' = messages]_vars

\* ------------------------------------------------------------------- C6
\* C6: after the teardown no event changes a message, opens a transport or
\* calls close() again, and close() was called at most once on any socket.
C6_NothingAfterTeardown ==
    /\ [](\A i \in Sessions : sockets[i].closeCalls <= 1)
    /\ [][~mounted =>
            /\ messages' = messages
            /\ Len(sockets') = Len(sockets)
            /\ \A i \in Sessions : sockets'[i].closeCalls = sockets[i].closeCalls]_vars

\* a session torn down while streaming, and then a fragment, the error and the
\* close of its transport
C6_Witness ==
    /\ ~mounted
    /\ \E i \in Sessions :
          /\ sockets[i].closeCalls = 1 /\ sockets[i].opened
          /\ sockets[i].late >= 1 /\ sockets[i].errored /\ sockets[i].closed
          /\ ContentIn(messages, sockets[i].assistantMessageId) = <<>>

\* ------------------------------------------------------------------- C7
\* C7: close() is called at most once on a socket, the reference never
\* holds the socket of a session that has ended, and once the page is torn
\* down no session is left with a transport that neither ended nor was
\* closed.
C7_ReleasedExactlyOnce ==
    \A i \in Sessions :
        /\ sockets[i].closeCalls <= 1
        /\ Ended(sockets[i]) => wsRef # i
        /\ ~mounted => Ended(sockets[i])

\* ------------------------------------------------------------------- C8
\* C8: the terminal effects of a session (flag reset, reference cleared) are
\* applied by at most one event of its transport.
C8_OneTerminalTransition ==
    \A i \in Sessions : sockets[i].ends <= 1

\* ------------------------------------------------------------------- C9
\* C9: while the page is mounted, isConnecting says that the latest session
\* is connecting and isStreaming says that it is streaming.
C9_FlagsProjectLatestSession ==
    mounted =>
        LET n == Len(sockets) IN
        /\ isConnecting <=> (n > 0 /\ Connecting(sockets[n]))
        /\ isStreaming <=> (n > 0 /\ Streaming(sockets[n]))

\* ------------------------------------------------------------------ C10
\* C10: a run of onerror or onclose on the mounted page leaves both flags
\* false, so that sendMessage rejects no non-empty prompt; and a step that
\* opens a transport appends the trimmed prompt as a user message and an empty
\* assistant message and changes none of the messages already there.
C10_ReadyAfterTerminal ==
    /\ [][\A i \in Sessions :
            (mounted /\ sockets'[i].ends > sockets[i].ends) =>
                /\ ~isConnecting' /\ ~isStreaming'
                /\ \A v \in Inputs : Trim(v) # <<>> => ~Rejects(Trim(v))']_vars
    /\ [][Len(sockets') > Len(sockets) =>
            /\ Trim(input) # <<>> /\ ~isConnecting /\ ~isStreaming
            /\ Len(sockets') = Len(sockets) + 1
            /\ Len(messages') = Len(messages) + 2
            /\ SubSeq(messages', 1, Len(messages)) = messages
            /\ messages'[Len(messages) + 1].role = "user"
            /\ messages'[Len(messages) + 1].content = Trim(input)
            /\ messages'[Len(messages) + 2].role = "assistant"
            /\ messages'[Len(messages) + 2].content = <<>>
            /\ wsRef' = Len(sockets')]_vars

\* a second session accepted after the first ended by error, by close and by
\* an error in mid-stream
C10_Witness ==
    /\ Len(sockets) = 2 /\ Len(messages) = 4
    /\ sockets[1].errored /\ sockets[1].opened /\ sockets[1].closed
    /\ Connecting(sockets[2])
    /\ messages[3].content = <<"p">>

\* ------------------------------------------------------------------ C11
\* C11: what a socket was sent is nothing until its connected event and the
\* one payload carrying the session's prompt from then on; the send happens
\* in the step of the connected event, in a session that has not ended and
\* has been delivered no fragment, and no other step sends.
C11_PromptSentOnceOnConnect ==
    /\ [](\A i \in Sessions :
            sockets[i].sent = IF sockets[i].opened
                              THEN << [prompt |-> messages[2 * i - 1].content] >>
                              ELSE <<>>)
    /\ [][\A i \in Sessions :
            sockets'[i].sent # sockets[i].sent =>
                /\ ~sockets[i].opened /\ sockets'[i].opened
                /\ ~Ended(sockets[i]) /\ ~Ended(sockets'[i])
                /\ sockets[i].frags = <<>>
                /\ sockets[i].sent = <<>> /\ Len(sockets'[i].sent) = 1]_vars

\* a session that was sent its prompt once and then streamed, erred and closed
C11_Witness ==
    \E i \in Sessions :
        /\ sockets[i].sent = << [prompt |-> <<"p">>] >>
        /\ Len(sockets[i].frags) = 2 /\ sockets[i].errored /\ sockets[i].closed

\* ------------------------------------------------------------------ C12
\* C12: the message list grows only in the step that opens a socket, and
\* then by exactly two messages at its end: the user message with the trimmed
\* prompt, then an assistant message with empty content, which is the target
\* of the new socket; so from the first state in which a socket exists, and
\* before any of its events, its two messages are in the list.
C12_TwoMessagesBeforeTransport ==
    /\ [](/\ Len(messages) = 2 * Len(sockets)
          /\ \A i \in Sessions :
                /\ messages[2 * i - 1].role = "user"
                /\ messages[2 * i].role = "assistant"
                /\ messages[2 * i].id = sockets[i].assistantMessageId)
    /\ [][(Len(sockets') # Len(sockets) \/ Len(messages') # Len(messages)) =>
            LET n == Len(messages) IN
            /\ Len(sockets') = Len(sockets) + 1
            /\ Len(messages') = n + 2
            /\ SubSeq(messages', 1, n) = messages
            /\ messages'[n + 1].role = "user"
            /\ messages'[n + 1].content = Trim(input) /\ Trim(input) # <<>>
            /\ messages'[n + 2].role = "assistant"
            /\ messages'[n + 2].content = <<>>
            /\ ~sockets'[Len(sockets')].opened
            /\ ~Ended(sockets'[Len(sockets')])
            /\ sockets'[Len(sockets')].frags = <<>>]_vars

\* a second submit accepted after a first session that streamed text
C12_Witness ==
    /\ Len(sockets) = 2 /\ Len(messages) = 4
    /\ messages[2].content = <<"a", "b">>
    /\ messages[3].role = "user" /\ messages[3].content = <<"p">>
    /\ messages[4].role = "assistant" /\ messages[4].content = <<>>
    /\ Connecting(sockets[2])

\* ------------------------------------------------------------------ C13
IsPrefix(a, b) == Len(a) <= Len(b) /\ SubSeq(b, 1, Len(a)) = a

\* C13: in every step the content of every message is a prefix of its content
\* after the step; the content of a user message does not change; and the
\* content of an assistant message does not change once its session has
\* ended.
C13_ContentAppendOnly ==
    [][\A k \in 1..Len(messages) :
          /\ IsPrefix(messages[k].content, messages'[k].content)
          /\ messages[k].role = "user" => messages'[k].content = messages[k].content
          /\ (messages[k].role = "assistant" /\ Ended(sockets[k \div 2])) =>
                messages'[k].content = messages[k].content]_vars

\* ------------------------------------------------------------------ C14
\* C14: no step shortens the message list or changes the id or the role of a
\* message at any position, so the (id, role) sequence of a state is a prefix
\* of that of every later state; and the ids in the list are pairwise
\* distinct.
C14_AppendOnlyLog ==
    /\ [](\A j, k \in 1..Len(messages) : j # k => messages[j].id # messages[k].id)
    /\ [][/\ Len(messages') >= Len(messages)
          /\ \A k \in 1..Len(messages) :
                /\ messages'[k].id = messages[k].id
                /\ messages'[k].role = messages[k].role]_vars

\* two sessions whose assistant messages were both rewritten after creation
C14_Witness ==
    /\ Len(messages) = 4
    /\ messages[2].content = ErrorMarker
    /\ messages[4].content = <<"a", "b">>
    /\ <<messages[1].role, messages[2].role, messages[3].role, messages[4].role>>
          = <<"user", "assistant", "user", "assistant">>

\* ------------------------------------------------------------------ C15
\* C15: a step that is the run of a handler of a socket changes no message
\* but the assistant message that socket's session created: no user message
\* and no other session's message.
C15_OnlyOwnTarget ==
    [][\A i \in Sessions : StepOf(i) => OthersUnchanged(sockets[i].assistantMessageId)]_vars

\* a fragment of the first socket delivered after the second session had
\* started streaming its own text
C15_Witness ==
    /\ mounted /\ Len(sockets) = 2
    /\ sockets[1].late = 1 /\ messages[2].content = ErrorMarker \o <<"a">>
    /\ messages[4].content = <<"b">>
    /\ messages[1].content = <<"p">> /\ messages[3].content = <<"p">>

\* ------------------------------------------------------------------ C16
\* C16: on the mounted page, the error event and the close event of a
\* streaming session whose content is not empty both lead to the state the
\* renderer sees as: the messages as they were, and both flags false.
C16_ErrorLikeCloseWhenContent ==
    [][\A i \in Sessions :
          ( /\ mounted /\ Streaming(sockets[i])
            /\ ContentIn(messages, sockets[i].assistantMessageId) # <<>>
            /\ sockets'[i].ends > sockets[i].ends ) =>
                <<messages', isConnecting', isStreaming'>> = <<messages, FALSE, FALSE>>]_vars

\* a session ended by an error in mid-stream, its text kept
C16_Witness ==
    /\ mounted /\ ~isConnecting /\ ~isStreaming
    /\ \E i \in Sessions :
          /\ sockets[i].errored /\ ~sockets[i].closed /\ sockets[i].late = 0
          /\ sockets[i].frags = << <<"a">>, <<"b">> >>
          /\ ContentIn(messages, sockets[i].assistantMessageId) = <<"a", "b">>

\* ------------------------------------------------------------------ C17
\* C17: on the mounted page the reference holds the socket of every session
\* that is connecting or streaming, and is null when no session is.
C17_RefHoldsInFlightSocket ==
    mounted =>
        /\ \A i \in Sessions : InFlight(sockets[i]) => wsRef = i
        /\ (\A i \in Sessions : ~InFlight(sockets[i])) => wsRef = 0

\* ------------------------------------------------------------------ C18
\* C18: no step, two calls of sendMessage from one render included, opens
\* more than one socket or appends more than one user message and one
\* assistant message.
C18_OneSessionPerRender ==
    [][/\ Len(sockets') <= Len(sockets) + 1
       /\ Len(messages') <= Len(messages) + 2]_vars

\* ------------------------------------------------------------------ C19
\* C19: isConnecting and isStreaming are never both true.
C19_FlagsExclusive == ~(isConnecting /\ isStreaming)

\* the second session streaming after the first erred and closed behind a
\* submit
C19_Witness ==
    /\ Len(sockets) = 2 /\ isStreaming /\ ~isConnecting
    /\ sockets[1].errored /\ sockets[1].closed
    /\ Streaming(sockets[2]) /\ sockets[2].frags # <<>>

\* ------------------------------------------------------------------ C20
\* C20: the close event of a session that is still connecting (no connected
\* and no error event before it) leaves both flags false and the reference
\* null and changes no message; such a session was never sent its prompt and
\* its assistant message stays empty: no marker is written.
C20_CloseWhileConnecting ==
    /\ [](mounted =>
            \A i \in Sessions :
                (sockets[i].closed /\ ~sockets[i].opened /\ ~sockets[i].errored) =>
                    /\ sockets[i].sent = <<>>
                    /\ ContentIn(messages, sockets[i].assistantMessageId) = <<>>)
    /\ [][\A i \in Sessions :
            (mounted /\ Connecting(sockets[i]) /\ sockets'[i].closed) =>
                /\ ~isConnecting' /\ ~isStreaming' /\ wsRef' = 0
                /\ messages' = messages
                /\ sockets'[i].sent = <<>>]_vars

C20_Witness ==
    /\ mounted /\ ~isConnecting /\ ~isStreaming /\ wsRef = 0
    /\ \E i \in Sessions :
          /\ sockets[i].closed /\ ~sockets[i].opened /\ ~sockets[i].errored
          /\ sockets[i].sent = <<>>
          /\ ContentIn(messages, sockets[i].assistantMessageId) = <<>>

====
